---- MODULE Spec2Model ----
(***************************************************************************)
(* The rule orchestration engine of maps_workflow/main.py: execute_rules   *)
(* walks the configured rule descriptors in declared order, validates each *)
(* one, gates it on the statuses of its dependencies, resolves its module  *)
(* and class, evaluates it and applies the require / fail / skip policy.   *)
(*                                                                         *)
(* One action models one path through the body of the for loop of          *)
(* execute_rules (one descriptor, from line 48 to the continue, return or  *)
(* raise that ends its iteration).  An exception that nothing inside       *)
(* execute_rules catches ends the call with result = "raised".             *)
(***************************************************************************)
EXTENDS Naturals, Sequences, FiniteSets

VARIABLES
    config,             \* config['rules']: the sequence of raw descriptor records
    i,                  \* number of loop iterations started (index of `rule`)
    rule_status,        \* the dict rule_status: rule name -> BOOLEAN
    rule_time_elapsed,  \* "unbound" until line 76 has assigned the local once
    result,             \* "running", or how the call ended: "True", "False", "raised"
    reached,            \* history: furthest step attempted for each descriptor
    written,            \* history: what each iteration stored in rule_status
    status_before,      \* history: rule_status as the latest iteration found it
    previous,           \* how the earlier calls of execute_rules on config ended
    exit_status,        \* <<>> while the process runs, then <<its exit status>>
    directory,          \* the rules directory: os.listdir and the parsed files
    exclude,            \* the filename prefixes to leave out
    pending,            \* load_all_rules: the sorted filenames still to visit
    all_rules,          \* load_all_rules: the dict all_rules
    rule_evaluation     \* generate_rules_file: how it ended and its list

\* The state of one call of execute_rules.
engine == <<config, i, rule_status, rule_time_elapsed, result, reached, written,
            status_before>>

\* The state around a call of execute_rules.
outer == <<previous, exit_status, directory, exclude, pending, all_rules,
           rule_evaluation>>

vars == <<config, i, rule_status, rule_time_elapsed, result, reached, written,
          status_before, previous, exit_status, directory, exclude, pending,
          all_rules, rule_evaluation>>

-----------------------------------------------------------------------------
\* Bounds of the model.

\* Longest configured rule sequence.
MaxRules == 3

-----------------------------------------------------------------------------
\* The raw descriptor records and the environment they refer to.

\* A field the YAML record omits.
NoField == "<omitted>"

\* The three recognised policies.
Policies == {"require", "fail", "skip"}

\* importlib.import_module finds exactly these modules of maps_workflow.
InstalledModules == {"checks"}

\* The classes a resolvable module defines, with what evaluate() does:
\* the number of violations it returns, or that it raises.  Every class is
\* constructible from (raw_file, map_data, params) and its instances are
\* truthy, as plain Python objects are, so the test of line 67 never fires.
ModuleClasses ==
    [ Clean  |-> [raises |-> FALSE, violations |-> 0],
      Dirty  |-> [raises |-> FALSE, violations |-> 1],
      Broken |-> [raises |-> TRUE,  violations |-> 0] ]

\* Python's None.
None == "<None>"

\* Steps of one loop iteration, in the order the code attempts them.
Untouched  == 0
Validated  == 1   \* BaseRuleConfig(**rule) was called       (line 50)
Gated      == 2   \* the dependency gate was computed        (line 56)
Imported   == 3   \* load_rule_from_module was called        (line 61)
Looked     == 4   \* getattr(...)(...) was attempted         (line 66)
Evaluated  == 5   \* rule_func.evaluate() was invoked        (line 74)

\* BaseRuleConfig(**rule): TRUE when pydantic accepts the record.  Required
\* fields are name, module, class_name and type; type is one of the policies.
Validates(raw) ==
    /\ raw.name # NoField
    /\ raw.module # NoField
    /\ raw.class_name # NoField
    /\ raw.type \in Policies

\* The validated descriptor: depends_on defaults to the empty sequence.
BaseRuleConfig(raw) ==
    [raw EXCEPT !.depends_on = IF @ = NoField THEN <<>> ELSE @]

\* load_rule_from_module handing back a handle without the import check.
load_rule_from_module_Unchecked(rule_name) == rule_name

\* load_rule_from_module: the module handle, or None after ModuleNotFoundError.
load_rule_from_module(rule_name) ==
    IF rule_name \in InstalledModules THEN rule_name ELSE None

\* getattr(rule_module, class_name, None)
getattr(rule_module, class_name) ==
    IF class_name \in DOMAIN ModuleClasses THEN class_name ELSE None

\* rule_func.evaluate(): what the resolved class does.
evaluate(rule_func) == ModuleClasses[rule_func]

\* can_run_rule with a missing entry counted as satisfied.
can_run_rule_MissingPasses(rule_name) ==
    IF rule_name \notin DOMAIN rule_status THEN TRUE ELSE rule_status[rule_name]

\* can_run_rule(rule_name), the closure over the running rule_status.
can_run_rule(rule_name) ==
    IF rule_name \notin DOMAIN rule_status THEN FALSE ELSE rule_status[rule_name]

\* all(can_run_rule(dep) for dep in rule.depends_on)
DependenciesMet(rule) ==
    \A k \in 1..Len(rule.depends_on) : can_run_rule(rule.depends_on[k])

\* The success flag with its test inverted.
Success_Inverted(violations) == violations > 0

\* success = True; if len(violations) > 0: success = False
Success(violations) == ~(violations > 0)

\* The abort branch with the policy name misspelt: it never matches.
AbortsRun_Misspelt(type) == type = "required"

\* The abort branch taken for every policy but `skip`.
AbortsRun_UnlessSkip(type) == type # "skip"

\* The policy branch that returns False from execute_rules.
AbortsRun(type) == type = "require"

\* The assignment replacing the table by one holding the new entry alone.
Store_Replaces(status, key, value) == [k \in {key} |-> value]

\* rule_status[key] = value
Store(status, key, value) ==
    [k \in DOMAIN status \cup {key} |-> IF k = key THEN value ELSE status[k]]

-----------------------------------------------------------------------------
\* The configurations the model runs execute_rules on.

\* Name and dependency list of the configured rules: "A" stands alone (its
\* record leaves depends_on out), "B" depends on "A".
Shapes ==
    { [name |-> "A", depends_on |-> NoField],
      [name |-> "B", depends_on |-> <<"A">>] }

\* Module, class and policy of the configured rules.
Behaviours ==
    [module : {"checks"}, class_name : {"Clean", "Dirty", "Broken"}, type : Policies]
    \cup [module : {"absent"}, class_name : {"Clean"}, type : Policies]
    \cup [module : {"checks"}, class_name : {"Missing"}, type : {"require"}]

Descriptor(s, b) ==
    [name |-> s.name, module |-> b.module, class_name |-> b.class_name,
     type |-> b.type, depends_on |-> s.depends_on]

Descriptors ==
    { Descriptor(s, b) : s \in Shapes, b \in Behaviours }
    \cup
    { \* a record without a name
      [name |-> NoField, module |-> "checks", class_name |-> "Clean",
       type |-> "require", depends_on |-> NoField],
      \* a named record with an unrecognised policy
      [name |-> "A", module |-> "checks", class_name |-> "Clean",
       type |-> "warn", depends_on |-> NoField],
      \* a rule with two dependencies
      [name |-> "C", module |-> "checks", class_name |-> "Clean",
       type |-> "require", depends_on |-> <<"A", "B">>],
      \* a rule at the end of a chain C -> B -> A
      [name |-> "C", module |-> "checks", class_name |-> "Clean",
       type |-> "skip", depends_on |-> <<"B">>],
      \* a rule that lists itself as a dependency
      [name |-> "C", module |-> "checks", class_name |-> "Clean",
       type |-> "fail", depends_on |-> <<"C">>] }

Configs == UNION { [1..n -> Descriptors] : n \in 0..MaxRules }

-----------------------------------------------------------------------------
\* execute_rules

Init ==
    /\ config \in Configs
    /\ i = 0
    /\ rule_status = <<>>
    /\ rule_time_elapsed = "unbound"
    /\ result = "running"
    /\ reached = [k \in 1..Len(config) |-> Untouched]
    /\ written = [k \in 1..Len(config) |-> "none"]
    /\ status_before = <<>>
    /\ previous = <<>>
    /\ exit_status = <<>>
    /\ directory = [listing |-> <<>>, files |-> <<>>]
    /\ exclude = <<>>
    /\ pending = <<>>
    /\ all_rules = [rules |-> <<>>]
    /\ rule_evaluation = [ended |-> "no", at |-> 0, list |-> <<>>]

\* `for rule in config['rules']` yields the next record.
Fetch ==
    /\ result = "running"
    /\ i < Len(config)
    /\ i' = i + 1
    /\ status_before' = rule_status
    /\ UNCHANGED config
    /\ UNCHANGED outer

\* The iteration ends in `continue` (or falls off the loop body).
Continue == result' = "running"

\* Lines 49-54: the record fails validation.  rule is still the raw mapping,
\* so rule['name'] raises KeyError when the record has no name.
InvalidDescriptor ==
    /\ Fetch
    /\ LET rule == config[i + 1] IN
        /\ ~Validates(rule)
        /\ reached' = [reached EXCEPT ![i + 1] = Validated]
        /\ IF rule.name = NoField
           THEN /\ result' = "raised"
                /\ UNCHANGED <<rule_status, written>>
           ELSE /\ rule_status' = Store(rule_status, rule.name, FALSE)
                /\ written' = [written EXCEPT ![i + 1] = "false"]
                /\ Continue
    /\ UNCHANGED rule_time_elapsed

\* Lines 56-59: a dependency is missing from rule_status or false.
DependencyUnmet ==
    /\ Fetch
    /\ Validates(config[i + 1])
    /\ LET rule == BaseRuleConfig(config[i + 1]) IN
        /\ ~DependenciesMet(rule)
        /\ reached' = [reached EXCEPT ![i + 1] = Gated]
        /\ rule_status' = Store(rule_status, rule.name, FALSE)
        /\ written' = [written EXCEPT ![i + 1] = "false"]
        /\ Continue
    /\ UNCHANGED rule_time_elapsed

\* Lines 61-64: the module is not found.
ModuleNotFound ==
    /\ Fetch
    /\ Validates(config[i + 1])
    /\ LET rule == BaseRuleConfig(config[i + 1]) IN
        /\ DependenciesMet(rule)
        /\ load_rule_from_module(rule.module) = None
        /\ reached' = [reached EXCEPT ![i + 1] = Imported]
        /\ rule_status' = Store(rule_status, rule.name, FALSE)
        /\ written' = [written EXCEPT ![i + 1] = "false"]
        /\ Continue
    /\ UNCHANGED rule_time_elapsed

\* Line 66: the class is absent, getattr returns None and calling None raises
\* TypeError before line 67 can test the result.
ClassNotFound ==
    /\ Fetch
    /\ Validates(config[i + 1])
    /\ LET rule == BaseRuleConfig(config[i + 1]) IN
        /\ DependenciesMet(rule)
        /\ load_rule_from_module(rule.module) # None
        /\ getattr(load_rule_from_module(rule.module), rule.class_name) = None
        /\ reached' = [reached EXCEPT ![i + 1] = Looked]
        /\ result' = "raised"
    /\ UNCHANGED <<rule_status, written, rule_time_elapsed>>

\* The rule was instantiated (lines 61-70 passed) and line 74 calls evaluate().
Instantiated(rule) ==
    /\ DependenciesMet(rule)
    /\ load_rule_from_module(rule.module) # None
    /\ getattr(load_rule_from_module(rule.module), rule.class_name) # None

\* Lines 72-95: evaluate() returns its violations.
EvaluateReturns ==
    /\ Fetch
    /\ Validates(config[i + 1])
    /\ LET rule == BaseRuleConfig(config[i + 1])
           outcome == evaluate(getattr(load_rule_from_module(rule.module),
                                       rule.class_name))
       IN
        /\ Instantiated(rule)
        /\ ~outcome.raises
        /\ reached' = [reached EXCEPT ![i + 1] = Evaluated]
        /\ rule_time_elapsed' = "bound"
        /\ IF Success(outcome.violations)
           THEN /\ rule_status' = Store(rule_status, rule.name, TRUE)
                /\ written' = [written EXCEPT ![i + 1] = "true"]
                /\ Continue
           ELSE /\ rule_status' = Store(rule_status, rule.name, FALSE)
                /\ written' = [written EXCEPT ![i + 1] = "false"]
                /\ IF AbortsRun(rule.type)
                   THEN result' = "False"
                   ELSE Continue

\* Lines 97-105: evaluate() raises.  Every policy branch formats
\* rule_time_elapsed, which is unbound (UnboundLocalError) unless an earlier
\* evaluation of this run got past line 76.
EvaluateRaises ==
    /\ Fetch
    /\ Validates(config[i + 1])
    /\ LET rule == BaseRuleConfig(config[i + 1])
           outcome == evaluate(getattr(load_rule_from_module(rule.module),
                                       rule.class_name))
       IN
        /\ Instantiated(rule)
        /\ outcome.raises
        /\ reached' = [reached EXCEPT ![i + 1] = Evaluated]
        /\ rule_status' = Store(rule_status, rule.name, FALSE)
        /\ written' = [written EXCEPT ![i + 1] = "false"]
        /\ IF rule_time_elapsed = "unbound"
           THEN result' = "raised"
           ELSE IF AbortsRun(rule.type)
                THEN result' = "False"
                ELSE Continue
    /\ UNCHANGED rule_time_elapsed

\* Lines 107-108: the loop is exhausted.
Finish ==
    /\ result = "running"
    /\ i = Len(config)
    /\ result' = "True"
    /\ UNCHANGED <<config, i, rule_status, rule_time_elapsed, reached, written,
                   status_before>>
    /\ UNCHANGED outer

Next ==
    \/ InvalidDescriptor
    \/ DependencyUnmet
    \/ ModuleNotFound
    \/ ClassNotFound
    \/ EvaluateReturns
    \/ EvaluateRaises
    \/ Finish

Spec == Init /\ [][Next]_vars

-----------------------------------------------------------------------------
\* A second call of execute_rules on the same config and artifact.

\* The call with its table and timing kept from the call before, as they
\* would be if they lived outside the function.
CallAgain_SharedState ==
    /\ previous = <<>>
    /\ result \in {"True", "False", "raised"}
    /\ previous' = <<[rule_status |-> rule_status, result |-> result]>>
    /\ i' = 0
    /\ result' = "running"
    /\ reached' = [k \in 1..Len(config) |-> Untouched]
    /\ written' = [k \in 1..Len(config) |-> "none"]
    /\ status_before' = rule_status
    /\ UNCHANGED <<config, rule_status, rule_time_elapsed>>
    /\ UNCHANGED <<exit_status, directory, exclude, pending, all_rules,
                   rule_evaluation>>

\* Lines 39-40: the earlier call has ended, its outcome is noted, and a new
\* call starts with a new empty rule_status and no local bound.
CallAgain ==
    /\ previous = <<>>
    /\ result \in {"True", "False", "raised"}
    /\ previous' = <<[rule_status |-> rule_status, result |-> result]>>
    /\ i' = 0
    /\ rule_status' = <<>>
    /\ rule_time_elapsed' = "unbound"
    /\ result' = "running"
    /\ reached' = [k \in 1..Len(config) |-> Untouched]
    /\ written' = [k \in 1..Len(config) |-> "none"]
    /\ status_before' = <<>>
    /\ UNCHANGED config
    /\ UNCHANGED <<exit_status, directory, exclude, pending, all_rules,
                   rule_evaluation>>

NextTwice == Next \/ CallAgain

SpecTwice == Init /\ [][NextTwice]_vars

-----------------------------------------------------------------------------
\* The command-line entry point.

\* Lines 148-153: the result is logged and the script ends.  The interpreter
\* exits with 0 when the script runs off its end and with 1 when an exception
\* goes uncaught.
Exit ==
    /\ exit_status = <<>>
    /\ result \in {"True", "False", "raised"}
    /\ exit_status' = IF result = "raised" THEN <<1>> ELSE <<0>>
    /\ UNCHANGED engine
    /\ UNCHANGED <<previous, directory, exclude, pending, all_rules,
                   rule_evaluation>>

NextMain == Next \/ Exit

SpecMain == Init /\ [][NextMain]_vars

-----------------------------------------------------------------------------
\* Vocabulary of the properties.

\* The descriptor at position k as the loop body sees it after validation.
Rule(k) == BaseRuleConfig(config[k])

\* evaluate() was invoked for descriptor k.
WasEvaluated(k) == reached[k] = Evaluated

\* Descriptor k was evaluated and returned at least one violation.
ReportedViolations(k) ==
    /\ WasEvaluated(k)
    /\ ~ModuleClasses[config[k].class_name].raises
    /\ ModuleClasses[config[k].class_name].violations >= 1

\* Descriptor k was evaluated and returned no violation.
ReportedNothing(k) ==
    /\ WasEvaluated(k)
    /\ ~ModuleClasses[config[k].class_name].raises
    /\ ModuleClasses[config[k].class_name].violations = 0

\* Descriptor k was evaluated and its evaluation raised.
EvaluationRaised(k) ==
    /\ WasEvaluated(k)
    /\ ModuleClasses[config[k].class_name].raises

\* The iteration of descriptor k ended the call (return False or an exception).
EndedRun(k) == i = k /\ result \in {"False", "raised"}

\* Nothing was done for any descriptor after position k.
NothingAfter(k) ==
    \A j \in (k + 1)..Len(config) : reached[j] = Untouched /\ written[j] = "none"

\* After the iteration of descriptor k the loop went on: the call is still
\* running with the next descriptor ready to be processed, or k was the last
\* descriptor and the call ends with True.
WentOn(k) ==
    /\ ~EndedRun(k)
    /\ i = k =>
        IF k < Len(config)
        THEN result = "running" /\ ENABLED Next
        ELSE result \in {"running", "True"}

\* The iteration of descriptor k stored FALSE under the rule's name.
StoredFalse(k) ==
    /\ written[k] = "false"
    /\ i = k => /\ config[k].name \in DOMAIN rule_status
                /\ rule_status[config[k].name] = FALSE

-----------------------------------------------------------------------------
\* C1: execute_rules returns False exactly when a `require` rule was evaluated
\* and reported a violation or raised; in every other case every descriptor is
\* processed and the call returns True (so the call never ends any other way).
C1_AbortOnlyOnRequiredFailure ==
    /\ result \in {"running", "True", "False"}
    /\ \A k \in 1..i :
        (i = k /\ result = "False")
            <=> /\ config[k].type = "require"
                /\ ReportedViolations(k) \/ EvaluationRaised(k)
    /\ result = "True" => \A k \in 1..Len(config) : reached[k] # Untouched

\* C2: a `require` rule that returns at least one violation gets status false,
\* execute_rules returns False at once, and no later descriptor is touched.
C2_RequiredViolationAborts ==
    \A k \in 1..i :
        (config[k].type = "require" /\ ReportedViolations(k)) =>
            /\ StoredFalse(k)
            /\ i = k
            /\ result = "False"
            /\ NothingAfter(k)
            /\ ~ENABLED Next

\* A `require` rule reported a violation while another descriptor followed it.
C2_Witness ==
    \E k \in 1..i :
        /\ config[k].type = "require"
        /\ ReportedViolations(k)
        /\ k < Len(config)
        /\ result = "False"

\* C3: a `require` rule whose evaluation raises makes execute_rules return
\* False at once with status false, at every position, and no later descriptor
\* is touched.
C3_RequiredErrorAborts ==
    \A k \in 1..i :
        (config[k].type = "require" /\ EvaluationRaised(k)) =>
            /\ StoredFalse(k)
            /\ i = k
            /\ result = "False"
            /\ NothingAfter(k)

\* C4: a `fail` or `skip` rule whose evaluation raises gets status false and
\* the loop goes on with the next descriptor, at every position.
C4_TolerantErrorContinues ==
    \A k \in 1..i :
        (config[k].type \in {"fail", "skip"} /\ EvaluationRaised(k)) =>
            /\ StoredFalse(k)
            /\ WentOn(k)

\* C5: a `fail` or `skip` rule that returns at least one violation gets status
\* false and never ends the run: the loop goes on with the next descriptor.
C5_TolerantViolationContinues ==
    \A k \in 1..i :
        (config[k].type \in {"fail", "skip"} /\ ReportedViolations(k)) =>
            /\ StoredFalse(k)
            /\ WentOn(k)

\* A `fail` rule and a `skip` rule both reported violations and the loop went
\* past each of them.
C5_Witness ==
    \E k1 \in 1..i, k2 \in 1..i :
        /\ config[k1].type = "fail" /\ ReportedViolations(k1) /\ k1 < i
        /\ config[k2].type = "skip" /\ ReportedViolations(k2) /\ k2 < i

\* A dependency of the descriptor is missing from the table or false in it.
Unmet(status, rule) ==
    \E d \in 1..Len(rule.depends_on) :
        \/ rule.depends_on[d] \notin DOMAIN status
        \/ status[rule.depends_on[d]] = FALSE

\* C6: a valid descriptor with a dependency that is absent from the status
\* table or false there, at the moment it is processed, is not resolved or
\* evaluated, gets status false, and the loop goes on; it proceeds to
\* resolution exactly when every dependency has an entry equal to true (an
\* empty depends_on always does).
C6_DependencyGate ==
    (i >= 1 /\ Validates(config[i])) =>
        /\ Unmet(status_before, Rule(i)) =>
            /\ reached[i] = Gated
            /\ StoredFalse(i)
            /\ WentOn(i)
        /\ ~Unmet(status_before, Rule(i)) => reached[i] >= Imported
        /\ Len(Rule(i).depends_on) = 0 => reached[i] >= Imported

\* A rule with two dependencies, one true and one false in the table, was
\* blocked; before it a rule passed the gate with its dependency true.
C6_Witness ==
    /\ i = 3
    /\ Validates(config[3])
    /\ Len(Rule(3).depends_on) = 2
    /\ status_before = [n \in {"A", "B"} |-> n = "A"]
    /\ reached[3] = Gated
    /\ reached[2] = Evaluated /\ Len(Rule(2).depends_on) = 1

\* C7: a rule whose evaluation returns no violation gets status true whatever
\* its policy, and the run neither aborts nor fails because of it: the loop
\* goes on with the next descriptor.
C7_CleanRulePasses ==
    \A k \in 1..i :
        ReportedNothing(k) =>
            /\ written[k] = "true"
            /\ i = k => /\ config[k].name \in DOMAIN rule_status
                        /\ rule_status[config[k].name] = TRUE
            /\ WentOn(k)

\* Rules of all three policies returned no violation and the call ended True.
C7_Witness ==
    /\ result = "True"
    /\ \A p \in Policies :
        \E k \in 1..i : config[k].type = p /\ ReportedNothing(k)

\* No descriptor strictly between k and j carries the name of descriptor k.
NotRedeclaredBetween(k, j) ==
    \A m \in (k + 1)..(j - 1) : config[m].name # config[k].name

\* C8: a descriptor that fails validation gets status false, is never resolved
\* or evaluated, does not end the run, and blocks every later rule that lists
\* its name in depends_on.
C8_InvalidDescriptorRecorded ==
    \A k \in 1..i :
        ~Validates(config[k]) =>
            /\ StoredFalse(k)
            /\ reached[k] < Imported
            /\ WentOn(k)
            /\ \A j \in (k + 1)..i :
                ( /\ Validates(config[j])
                  /\ NotRedeclaredBetween(k, j)
                  /\ \E d \in 1..Len(Rule(j).depends_on) :
                        Rule(j).depends_on[d] = config[k].name )
                    => reached[j] = Gated

\* C9: a record without `name` is a recorded configuration failure: the loop
\* goes on, the call returns an overall result, and no status entry is made
\* for the record.
C9_NamelessDescriptorContinues ==
    \A k \in 1..i :
        config[k].name = NoField =>
            /\ reached[k] = Validated
            /\ written[k] = "none"
            /\ NoField \notin DOMAIN rule_status
            /\ WentOn(k)
            /\ result \in {"running", "True", "False"}

\* C10: when the class is absent from a module that was found, the rule gets
\* status false, is not evaluated, and the loop goes on.
C10_ClassNotFoundContinues ==
    \A k \in 1..i :
        ( /\ Validates(config[k])
          /\ reached[k] >= Looked
          /\ config[k].class_name \notin DOMAIN ModuleClasses ) =>
            /\ StoredFalse(k)
            /\ reached[k] = Looked
            /\ WentOn(k)

-----------------------------------------------------------------------------
\* C11: when the module of a valid, unblocked descriptor cannot be found,
\* load_rule_from_module returns the not-found result, the rule gets status
\* false without being instantiated or evaluated, and the loop goes on,
\* whatever the policy.
C11_ModuleNotFoundContinues ==
    /\ \A k \in 1..i :
        ( /\ Validates(config[k])
          /\ reached[k] >= Imported
          /\ config[k].module \notin InstalledModules ) =>
            /\ load_rule_from_module(config[k].module) = None
            /\ reached[k] = Imported
            /\ StoredFalse(k)
            /\ WentOn(k)
    /\ ( /\ i >= 1
         /\ Validates(config[i])
         /\ ~Unmet(status_before, Rule(i))
         /\ config[i].module \notin InstalledModules ) => reached[i] = Imported

\* Rules of all three policies named a module that is not installed, and the
\* call went past each of them and ended True.
C11_Witness ==
    /\ result = "True"
    /\ \A p \in Policies :
        \E k \in 1..i :
            /\ config[k].type = p
            /\ config[k].module \notin InstalledModules
            /\ reached[k] = Imported

\* The sequence A (no dependencies, require, passes), B (depends on A, fail,
\* one violation), C (depends on B, skip).
ScenarioABC ==
    << [name |-> "A", module |-> "checks", class_name |-> "Clean",
        type |-> "require", depends_on |-> NoField],
       [name |-> "B", module |-> "checks", class_name |-> "Dirty",
        type |-> "fail", depends_on |-> <<"A">>],
       [name |-> "C", module |-> "checks", class_name |-> "Clean",
        type |-> "skip", depends_on |-> <<"B">>] >>

\* C12: on the sequence A, B, C above the call runs to its end and returns
\* True with statuses A = true, B = false, C = false, and C is never evaluated.
C12_ScenarioABC ==
    config = ScenarioABC =>
        /\ result = "running" => ENABLED Next
        /\ result \in {"running", "True"}
        /\ reached[3] \in {Untouched, Gated}
        /\ result = "True" =>
            /\ rule_status = [n \in {"A", "B", "C"} |-> n = "A"]
            /\ reached = <<Evaluated, Evaluated, Gated>>

\* The call on the sequence A, B, C has returned.
C12_Witness ==
    /\ config = ScenarioABC
    /\ result = "True"
    /\ ModuleClasses[config[2].class_name].violations = 1

\* C14: the status table starts empty and only grows: an iteration removes no
\* key, writes only the entry of the descriptor it processes and leaves every
\* other entry as it was, and every descriptor whose iteration let the loop go
\* on has an entry before the next descriptor is examined.
C14_StatusTableGrows ==
    /\ i = 0 => rule_status = <<>>
    /\ i >= 1 =>
        /\ DOMAIN status_before \subseteq DOMAIN rule_status
        /\ DOMAIN rule_status \subseteq DOMAIN status_before \cup {config[i].name}
        /\ \A n \in DOMAIN status_before :
            n # config[i].name => rule_status[n] = status_before[n]
    /\ \A k \in 1..i :
        ~EndedRun(k) => config[k].name \in DOMAIN rule_status

\* The third iteration wrote its own entry into a table that already held two
\* other entries, one true and one false.
C14_Witness ==
    /\ i = 3
    /\ DOMAIN status_before = {"A", "B"}
    /\ status_before["A"] # status_before["B"]
    /\ DOMAIN rule_status = {"A", "B", "C"}

\* No two descriptors of the sequence carry the same name.
UniqueNames ==
    \A j, k \in 1..Len(config) : j # k => config[j].name # config[k].name

\* Descriptor k lists, as a dependency, its own name or the name of a
\* descriptor that comes after it.
DependsForward(k) ==
    \E d \in 1..Len(Rule(k).depends_on) :
        \E j \in k..Len(config) : config[j].name = Rule(k).depends_on[d]

\* C18: with unique names, a valid rule that depends on a rule declared later
\* (or on itself) is treated as unmet: it is never evaluated, its status is
\* false, and stays false whatever the later rule does.
C18_ForwardDependencyUnmet ==
    UniqueNames =>
        \A k \in 1..i :
            (Validates(config[k]) /\ DependsForward(k)) =>
                /\ reached[k] = Gated
                /\ written[k] = "false"
                /\ config[k].name \in DOMAIN rule_status
                /\ rule_status[config[k].name] = FALSE

\* A rule was blocked on a rule declared after it, which then passed; the
\* call ended with the first still false.  Another rule depended on itself.
C18_Witness ==
    /\ UniqueNames
    /\ result = "True"
    /\ \E k \in 1..i, j \in 1..i :
        /\ k < j
        /\ Validates(config[k])
        /\ \E d \in 1..Len(Rule(k).depends_on) :
            Rule(k).depends_on[d] = config[j].name
        /\ rule_status[config[j].name] = TRUE
        /\ rule_status[config[k].name] = FALSE
    /\ \E k \in 1..i :
        /\ Validates(config[k])
        /\ \E d \in 1..Len(Rule(k).depends_on) :
            Rule(k).depends_on[d] = config[k].name
        /\ reached[k] = Gated

\* C19: when two descriptors share a name, each is processed on its own and
\* the entry of that name holds the outcome of the most recently processed of
\* them (true exactly when it was evaluated and reported nothing), so the final
\* table reports the last occurrence; a dependent rule is gated on the value
\* the entry has when the rule is processed.
C19_LastOccurrenceWins ==
    /\ \A k1, k2 \in 1..i :
        ( /\ k1 < k2
          /\ config[k1].name = config[k2].name
          /\ config[k2].name # NoField
          /\ \A j \in (k2 + 1)..i : config[j].name # config[k2].name ) =>
            /\ config[k2].name \in DOMAIN rule_status
            /\ rule_status[config[k2].name] = ReportedNothing(k2)
    /\ (i >= 1 /\ Validates(config[i])) =>
        (reached[i] = Gated <=> Unmet(status_before, Rule(i)))

\* The names the valid rule called n lists as dependencies.
DepsOf(n) ==
    UNION { { Rule(k).depends_on[d] : d \in 1..Len(Rule(k).depends_on) } :
            k \in { j \in 1..Len(config) :
                      config[j].name = n /\ Validates(config[j]) } }

\* The names reachable from the set S along dependencies.
RECURSIVE DependencyClosure(_, _)
DependencyClosure(S, fuel) ==
    IF fuel = 0
    THEN S
    ELSE DependencyClosure(S \cup UNION { DepsOf(m) : m \in S }, fuel - 1)

\* C20: with unique names, a rule has status true only if it passed
\* validation, was resolved and evaluated exactly once with no violation and
\* no error, and each of its dependencies, direct or transitive, has status
\* true.
C20_TrueIsClosedUnderDependencies ==
    UniqueNames =>
        \A n \in DOMAIN rule_status :
            rule_status[n] = TRUE =>
                /\ \E k \in 1..i :
                    /\ config[k].name = n
                    /\ Validates(config[k])
                    /\ load_rule_from_module(config[k].module) # None
                    /\ ReportedNothing(k)
                /\ Cardinality({ k \in 1..Len(config) :
                                   config[k].name = n /\ WasEvaluated(k) }) = 1
                /\ \A m \in DependencyClosure(DepsOf(n), Len(config)) :
                    m \in DOMAIN rule_status /\ rule_status[m] = TRUE

\* The chain C -> B -> A was run and all three rules have status true.
C20_Witness ==
    /\ UniqueNames
    /\ i = 3
    /\ DependencyClosure(DepsOf(config[3].name), Len(config))
         = {config[1].name, config[2].name}
    /\ DepsOf(config[2].name) = {config[1].name}
    /\ \A k \in 1..3 : rule_status[config[k].name] = TRUE

-----------------------------------------------------------------------------
\* C13: a second call of execute_rules on the same descriptor sequence, with
\* rule bodies that behave as before, ends with the same status table and the
\* same overall result as the first; it starts from an empty table and an
\* unbound timing local, whatever the first call left.
C13_SecondRunIdentical ==
    previous # <<>> =>
        /\ i = 0 => rule_status = <<>> /\ rule_time_elapsed = "unbound"
        /\ result # "running" =>
            /\ rule_status = previous[1].rule_status
            /\ result = previous[1].result

\* Both calls on a sequence of three rules have ended, with a table that holds
\* a true and a false entry, each call having bound its timing local.
C13_Witness ==
    /\ previous # <<>>
    /\ result = "True"
    /\ Len(config) = 3
    /\ \E n, m \in DOMAIN rule_status : rule_status[n] /\ ~rule_status[m]
    /\ rule_time_elapsed = "bound"

\* C17: the exit status of the process reflects the overall result: failure
\* when execute_rules returned False, success when it returned True.
C17_ExitStatusReflectsResult ==
    exit_status # <<>> =>
        /\ result = "False" => exit_status # <<0>>
        /\ result = "True" => exit_status = <<0>>

-----------------------------------------------------------------------------
\* load_all_rules

\* Most files a rules directory holds.
MaxFiles == 4

\* ord(c) for the characters the filenames use.
Ord(c) ==
    CASE c = "." -> 46
      [] c = "0" -> 48
      [] c = "1" -> 49
      [] c = "2" -> 50
      [] c = "a" -> 97
      [] c = "b" -> 98
      [] c = "l" -> 108
      [] c = "m" -> 109
      [] c = "y" -> 121

\* Python's a < b on str, a string being the sequence of its characters.
RECURSIVE StrLess(_, _)
StrLess(a, b) ==
    IF b = <<>> THEN FALSE
    ELSE IF a = <<>> THEN TRUE
    ELSE IF Head(a) # Head(b) THEN Ord(Head(a)) < Ord(Head(b))
    ELSE StrLess(Tail(a), Tail(b))

\* filename.startswith(skip)
startswith(filename, skip) ==
    /\ Len(skip) <= Len(filename)
    /\ SubSeq(filename, 1, Len(skip)) = skip

\* filename.endswith(suffix)
endswith(filename, suffix) ==
    /\ Len(suffix) <= Len(filename)
    /\ SubSeq(filename, Len(filename) - Len(suffix) + 1, Len(filename)) = suffix

\* The elements of a sequence.
Range(seq) == { seq[k] : k \in 1..Len(seq) }

\* The list left as os.listdir gave it.
sorted_AsListed(names) == names

\* sorted(names), for a list of distinct strings.
RECURSIVE sorted(_)
sorted(names) ==
    IF names = <<>> THEN <<>>
    ELSE LET least == CHOOSE x \in Range(names) :
                        \A y \in Range(names) : y = x \/ StrLess(x, y)
         IN <<least>> \o sorted(SelectSeq(names, LAMBDA y : y # least))

\* '.yaml'
YamlExt == <<".", "y", "a", "m", "l">>

\* The filenames a directory may hold: 10.yaml, 2.yaml, a.yaml, ab.yaml, a.yml.
FileNames ==
    { <<"1", "0">> \o YamlExt,
      <<"2">> \o YamlExt,
      <<"a">> \o YamlExt,
      <<"a", "b">> \o YamlExt,
      <<"a", ".", "y", "m", "l">> }

\* The `rules` lists a declaration file may hold.
RuleLists ==
    { <<>>,
      <<ScenarioABC[1]>>,
      <<ScenarioABC[2], ScenarioABC[1]>> }

\* os.listdir names each file once, in no particular order.
Listings ==
    UNION { { l \in [1..n -> FileNames] :
                \A j, k \in 1..n : j # k => l[j] # l[k] } : n \in 0..MaxFiles }

\* A directory: what os.listdir returns, and the rules of each file.
Directories ==
    UNION { { [listing |-> l, files |-> f] : f \in [Range(l) -> RuleLists] } :
            l \in Listings }

\* The exclude lists: none, 'a', 'ab' and '1', 'a.yaml'.
ExcludeLists ==
    { <<>>,
      << <<"a">> >>,
      << <<"a", "b">>, <<"1">> >>,
      << <<"a">> \o YamlExt >> }

\* Lines 27-29: all_rules = {'rules': []} and the loop over the sorted names.
InitLoad ==
    /\ directory \in Directories
    /\ exclude \in ExcludeLists
    /\ pending = sorted(directory.listing)
    /\ all_rules = [rules |-> <<>>]
    /\ config = <<>>
    /\ i = 0
    /\ rule_status = <<>>
    /\ rule_time_elapsed = "unbound"
    /\ result = "running"
    /\ reached = <<>>
    /\ written = <<>>
    /\ status_before = <<>>
    /\ previous = <<>>
    /\ exit_status = <<>>
    /\ rule_evaluation = [ended |-> "no", at |-> 0, list |-> <<>>]

\* any(filename.startswith(skip) for skip in exclude)
IsExcluded(filename) ==
    \E k \in 1..Len(exclude) : startswith(filename, exclude[k])

\* The loop moves to the next filename; nothing else changes.
NextFile ==
    /\ pending # <<>>
    /\ pending' = Tail(pending)
    /\ UNCHANGED <<directory, exclude>>
    /\ UNCHANGED engine
    /\ UNCHANGED <<previous, exit_status, rule_evaluation>>

\* Lines 30-31: the filename starts with an excluded prefix.
SkipExcluded ==
    /\ NextFile
    /\ IsExcluded(Head(pending))
    /\ UNCHANGED all_rules

\* Line 33, false: the filename does not end with '.yaml'.
SkipOtherFile ==
    /\ NextFile
    /\ ~IsExcluded(Head(pending))
    /\ ~endswith(Head(pending), YamlExt)
    /\ UNCHANGED all_rules

\* Lines 33-36: the file is loaded and its rules extend all_rules['rules'].
ExtendRules ==
    /\ NextFile
    /\ ~IsExcluded(Head(pending))
    /\ endswith(Head(pending), YamlExt)
    /\ all_rules' = [rules |-> all_rules.rules \o directory.files[Head(pending)]]

NextLoad ==
    \/ SkipExcluded
    \/ SkipOtherFile
    \/ ExtendRules

SpecLoad == InitLoad /\ [][NextLoad]_vars

-----------------------------------------------------------------------------
\* The filename carries the declaration extension.
HasYamlExtension(f) ==
    /\ Len(f) >= Len(YamlExt)
    /\ \A k \in 1..Len(YamlExt) : f[Len(f) - Len(YamlExt) + k] = YamlExt[k]

\* The filename begins with the prefix p.
HasPrefix(f, p) ==
    /\ Len(p) <= Len(f)
    /\ \A k \in 1..Len(p) : f[k] = p[k]

\* f comes before g in lexicographic order: f is a proper prefix of g, or at
\* the first position where they differ f has the smaller character.
LexBefore(f, g) ==
    \/ Len(f) < Len(g) /\ HasPrefix(g, f)
    \/ \E k \in 1..Len(f) :
        /\ k <= Len(g)
        /\ \A j \in 1..(k - 1) : f[j] = g[j]
        /\ f[k] # g[k]
        /\ Ord(f[k]) < Ord(g[k])

\* The files of the directory that contribute rules.
Kept ==
    { f \in Range(directory.listing) :
        /\ HasYamlExtension(f)
        /\ \A k \in 1..Len(exclude) : ~HasPrefix(f, exclude[k]) }

\* The number of rules in the files of S.
RECURSIVE RuleCount(_)
RuleCount(S) ==
    IF S = {} THEN 0
    ELSE LET f == CHOOSE x \in S : TRUE
         IN Len(directory.files[f]) + RuleCount(S \ {f})

\* C15: load_all_rules returns the concatenation, in lexicographic filename
\* order, of the rules of every file that ends with '.yaml' and starts with no
\* excluded prefix: each such file's rules stand together, in their own order,
\* after the rules of all such files before it, and there is nothing else.
C15_LoaderConcatenates ==
    pending = <<>> =>
        /\ Len(all_rules.rules) = RuleCount(Kept)
        /\ \A f \in Kept :
            \A j \in 1..Len(directory.files[f]) :
                all_rules.rules[RuleCount({ g \in Kept : LexBefore(g, f) }) + j]
                    = directory.files[f][j]

\* A directory listed out of order, with two contributing files that hold the
\* same rule, an excluded '.yaml' file and a file of another extension, has
\* been loaded.
C15_Witness ==
    /\ pending = <<>>
    /\ Len(directory.listing) = 4
    /\ \E j, k \in 1..4 : j < k /\ LexBefore(directory.listing[k], directory.listing[j])
    /\ \E f, g \in Kept :
        /\ f # g
        /\ Len(directory.files[f]) = 2
        /\ directory.files[g] = <<directory.files[f][2]>>
    /\ \E f \in Range(directory.listing) : HasYamlExtension(f) /\ f \notin Kept
    /\ \E f \in Range(directory.listing) : ~HasYamlExtension(f)
    /\ Len(all_rules.rules) = 3

-----------------------------------------------------------------------------
\* generate_rules_file

\* rule.description: the descriptor's text, '' when it declares none.
description(rule) ==
    IF "description" \in DOMAIN rule THEN rule.description ELSE ""

\* rule_func.explain(): the text of the resolved class.
explain(rule_func) == rule_func

\* Line 128: the record appended for a resolved rule.
DocRecord(rule, rule_func) ==
    [name |-> rule.name, desc |-> description(rule),
     explain |-> explain(rule_func), required |-> rule.type = "require"]

\* Line 113: the loop takes the next descriptor of config['rules'].
DocsFetch ==
    /\ rule_evaluation.ended = "no"
    /\ rule_evaluation.at < Len(config)
    /\ UNCHANGED engine
    /\ UNCHANGED <<previous, exit_status, directory, exclude, pending, all_rules>>

\* The descriptor the loop is at.
DocsRule == config[rule_evaluation.at + 1]

\* Lines 114-118: validation fails; logged, and the loop continues.
DocsInvalidDescriptor ==
    /\ DocsFetch
    /\ ~Validates(DocsRule)
    /\ rule_evaluation' = [rule_evaluation EXCEPT !.at = @ + 1]

\* Lines 120-122: the module is not found; the loop continues.
DocsModuleNotFound ==
    /\ DocsFetch
    /\ Validates(DocsRule)
    /\ load_rule_from_module(BaseRuleConfig(DocsRule).module) = None
    /\ rule_evaluation' = [rule_evaluation EXCEPT !.at = @ + 1]

\* Line 124: getattr gives None, and calling None raises TypeError, which
\* nothing in generate_rules_file catches.
DocsClassNotFound ==
    /\ DocsFetch
    /\ Validates(DocsRule)
    /\ LET rule == BaseRuleConfig(DocsRule)
           rule_module == load_rule_from_module(rule.module)
       IN /\ rule_module # None
          /\ getattr(rule_module, rule.class_name) = None
    /\ rule_evaluation' = [rule_evaluation EXCEPT !.ended = "raised"]

\* Lines 124-128: the class is instantiated and its record appended.
DocsAppend ==
    /\ DocsFetch
    /\ Validates(DocsRule)
    /\ LET rule == BaseRuleConfig(DocsRule)
           rule_module == load_rule_from_module(rule.module)
           rule_func == getattr(rule_module, rule.class_name)
       IN /\ rule_module # None
          /\ rule_func # None
          /\ rule_evaluation' =
                [rule_evaluation EXCEPT !.at = @ + 1,
                                        !.list = Append(@, DocRecord(rule, rule_func))]

\* Line 129: return rule_evaluation.
DocsReturn ==
    /\ rule_evaluation.ended = "no"
    /\ rule_evaluation.at = Len(config)
    /\ rule_evaluation' = [rule_evaluation EXCEPT !.ended = "returned"]
    /\ UNCHANGED engine
    /\ UNCHANGED <<previous, exit_status, directory, exclude, pending, all_rules>>

NextDocs ==
    \/ DocsInvalidDescriptor
    \/ DocsModuleNotFound
    \/ DocsClassNotFound
    \/ DocsAppend
    \/ DocsReturn

SpecDocs == Init /\ [][NextDocs]_vars

-----------------------------------------------------------------------------
\* The descriptor validates and both its module and its class exist.
Resolves(raw) ==
    /\ Validates(raw)
    /\ raw.module \in InstalledModules
    /\ raw.class_name \in DOMAIN ModuleClasses

\* The descriptors of config that resolve, in declared order.
Resolvable == SelectSeq(config, Resolves)

\* C16: documentation generation never aborts: it always returns, and the
\* list it returns holds, in declared order, one record for exactly the
\* descriptors that validate and whose module and class resolve, with
\* required true iff the policy is `require`.
C16_DocsNeverAbort ==
    /\ rule_evaluation.ended # "raised"
    /\ rule_evaluation.ended = "returned" =>
        /\ Len(rule_evaluation.list) = Len(Resolvable)
        /\ \A k \in 1..Len(Resolvable) :
            /\ rule_evaluation.list[k].name = Resolvable[k].name
            /\ rule_evaluation.list[k].required = (Resolvable[k].type = "require")

====
